---- MODULE Spec2Model ----
(***************************************************************************)
(* Model of react_js_frontend/src/App.js: the session collection, the      *)
(* send flow around ApiClient.askQuestion, the localStorage mirror and the *)
(* session filter.                                                         *)
(*                                                                         *)
(* Strings are sequences of one-character strings.  React state is the     *)
(* committed value (what the closures of the last render read) plus the    *)
(* value the queued updaters produce, which the next render commits.       *)
(***************************************************************************)
EXTENDS Integers, Sequences, FiniteSets, TLC

VARIABLES
  sessions,         \* useState: committed session collection
  activeSessionId,  \* useState: committed active pointer (NULL = null)
  question,         \* useState: committed composer text
  isSending,        \* useState: committed sending flag
  search,           \* useState: committed search text
  next,             \* the state the queued updaters produce (committed by the next render)
  storage,          \* localStorage item under MockStorage.key
  setItemThrows,    \* whether localStorage.setItem throws on this page (storage full or disabled)
  inflight,         \* askQuestion calls that have not settled, with the closure of their handleSend
  sends,            \* how many askQuestion calls have been made
  now,              \* the value Date.now() returns
  pc,               \* "mount" | "idle" | "render"
  lastOp            \* what the last step was, when it was part of a handleSend: "click" or
                    \* "key" (it made its call), "send-ignored" (it returned at once),
                    \* "resolved" or "failed" (its call settled); "none" otherwise

vars == <<sessions, activeSessionId, question, isSending, search, next,
          storage, setItemThrows, inflight, sends, now, pc, lastOp>>

----------------------------------------------------------------------------
\* Bounds of the model

MaxSessions == 2
MaxSends == 2
MaxClock == 3

----------------------------------------------------------------------------
\* Program constants

NULL == 0
TitleLen == 42
\* The one character U+2026
Ellipsis == "..."
DefaultTitle == <<"N","e","w"," ","S","e","s","s","i","o","n">>
ErrorPrefix == <<"E","r","r","o","r",":"," ">>
DefaultError == <<"U","n","a","b","l","e">>

----------------------------------------------------------------------------
\* String functions

IsWhiteSpace(c) == c \in {" ", "\t", "\n"}

RECURSIVE trimStart(_)
trimStart(s) ==
  IF Len(s) = 0 THEN <<>>
  ELSE IF IsWhiteSpace(s[1]) THEN trimStart(SubSeq(s, 2, Len(s)))
  ELSE s

RECURSIVE trimEnd(_)
trimEnd(s) ==
  IF Len(s) = 0 THEN <<>>
  ELSE IF IsWhiteSpace(s[Len(s)]) THEN trimEnd(SubSeq(s, 1, Len(s) - 1))
  ELSE s

trim(s) == trimEnd(trimStart(s))

UpperCase == <<"A","B","C","D","E","F","G","H","I","J","K","L","M",
               "N","O","P","Q","R","S","T","U","V","W","X","Y","Z">>
LowerCase == <<"a","b","c","d","e","f","g","h","i","j","k","l","m",
               "n","o","p","q","r","s","t","u","v","w","x","y","z">>

LowerChar(c) ==
  IF \E i \in 1..Len(UpperCase) : UpperCase[i] = c
  THEN LowerCase[CHOOSE i \in 1..Len(UpperCase) : UpperCase[i] = c]
  ELSE c

toLowerCase(s) == [i \in 1..Len(s) |-> LowerChar(s[i])]

RECURSIVE indexOfFrom(_, _, _)
indexOfFrom(hay, needle, from) ==
  IF from + Len(needle) - 1 > Len(hay) THEN 0
  ELSE IF SubSeq(hay, from, from + Len(needle) - 1) = needle THEN from
  ELSE indexOfFrom(hay, needle, from + 1)

includes(hay, needle) == indexOfFrom(hay, needle, 1) # 0

truncateTitleShort(text) ==
  IF Len(text) > TitleLen THEN SubSeq(text, 1, TitleLen - 1) \o <<Ellipsis>> ELSE text

truncateTitle(text) ==
  IF Len(text) > TitleLen THEN SubSeq(text, 1, TitleLen) \o <<Ellipsis>> ELSE text

----------------------------------------------------------------------------
\* JSON text, as the structure JSON.stringify writes and JSON.parse reads

JStr(x) == [t |-> "string", v |-> x]
JTrue == [t |-> "true", v |-> TRUE]
JArr(xs) == [t |-> "array", v |-> xs]
JObj(pairs) == [t |-> "object", v |-> pairs]
JPair(key, val) == [k |-> key, v |-> val]

Has(o, key) == \E i \in 1..Len(o.v) : o.v[i].k = key
Get(o, key) == o.v[CHOOSE i \in 1..Len(o.v) : o.v[i].k = key].v

\* A property whose value is undefined is left out of the text.
stringifyMessageNoError(m) ==
  JObj(<<JPair("id", JStr(m.id)), JPair("role", JStr(m.role)),
         JPair("content", JStr(m.content)), JPair("createdAt", JStr(m.createdAt))>>)

stringifyMessage(m) ==
  JObj(<<JPair("id", JStr(m.id)), JPair("role", JStr(m.role)),
         JPair("content", JStr(m.content)), JPair("createdAt", JStr(m.createdAt))>>
       \o (IF m.error THEN <<JPair("error", JTrue)>> ELSE <<>>))

stringifySession(s) ==
  JObj(<<JPair("id", JStr(s.id)), JPair("title", JStr(s.title)),
         JPair("createdAt", JStr(s.createdAt)),
         JPair("messages", JArr([i \in 1..Len(s.messages) |-> stringifyMessage(s.messages[i])]))>>)

JSONstringify(sess) == JArr([i \in 1..Len(sess) |-> stringifySession(sess[i])])

parseMessage(o) ==
  [id |-> Get(o, "id").v, role |-> Get(o, "role").v, content |-> Get(o, "content").v,
   createdAt |-> Get(o, "createdAt").v,
   error |-> IF Has(o, "error") THEN Get(o, "error").v ELSE FALSE]

parseSession(o) ==
  [id |-> Get(o, "id").v, title |-> Get(o, "title").v, createdAt |-> Get(o, "createdAt").v,
   messages |-> [i \in 1..Len(Get(o, "messages").v) |-> parseMessage(Get(o, "messages").v[i])]]

\* localStorage.getItem gives null when the key is absent.
NoItem == [t |-> "absent", v |-> <<>>]
\* A text JSON.parse throws on.
NotJson == [t |-> "garbage", v |-> <<>>]

loadSessions(raw) ==
  IF raw.t = "absent" THEN <<>>
  ELSE IF raw.t = "garbage" THEN <<>>
  ELSE IF raw.t # "array" THEN <<>>
  ELSE [i \in 1..Len(raw.v) |-> parseSession(raw.v[i])]

\* The item after saveSessions(sess): setItem may throw, and the catch ignores it.
saveSessionsOnce(sess) ==
  IF setItemThrows \/ storage.t = "array" THEN storage ELSE JSONstringify(sess)

saveSessions(sess) == IF setItemThrows THEN storage ELSE JSONstringify(sess)

----------------------------------------------------------------------------
\* Sessions and messages

createNewSession(t) ==
  [id |-> t, title |-> DefaultTitle, createdAt |-> t, messages |-> <<>>]

userMsg(text, t) ==
  [id |-> <<"m_", t, "">>, role |-> "user", content |-> trim(text), createdAt |-> t,
   error |-> FALSE]

assistantMsg(answer, t) ==
  [id |-> <<"m_", t, "_asst">>, role |-> "assistant", content |-> answer, createdAt |-> t,
   error |-> FALSE]

errMsgUnflagged(message, t) ==
  [id |-> <<"m_", t, "_err">>, role |-> "assistant",
   content |-> ErrorPrefix \o (IF Len(message) = 0 THEN DefaultError ELSE message),
   createdAt |-> t, error |-> FALSE]

errMsg(message, t) ==
  [id |-> <<"m_", t, "_err">>, role |-> "assistant",
   content |-> ErrorPrefix \o (IF Len(message) = 0 THEN DefaultError ELSE message),
   createdAt |-> t, error |-> TRUE]

\* Array.prototype.find: the index of the first match, 0 when there is none.
findIndex(sess, id) ==
  IF \E i \in 1..Len(sess) : sess[i].id = id
  THEN CHOOSE i \in 1..Len(sess) : sess[i].id = id /\ \A j \in 1..(i - 1) : sess[j].id # id
  ELSE 0

\* useMemo: sessions.find(s => s.id === activeSessionId) || null, as an index
activeSession == findIndex(sessions, activeSessionId)

filterOut(sess, id) == SelectSeq(sess, LAMBDA s : s.id # id)

keepDeletedId(sess, id) == id

\* sessions.find(s => s.id !== id)?.id || null
firstOtherId(sess, id) ==
  IF \E i \in 1..Len(sess) : sess[i].id # id
  THEN sess[CHOOSE i \in 1..Len(sess) : sess[i].id # id /\ \A j \in 1..(i - 1) : sess[j].id = id].id
  ELSE NULL

updateActiveSessionMessages(prev, activeId, msg) ==
  [i \in 1..Len(prev) |->
     IF prev[i].id # activeId THEN prev[i]
     ELSE [prev[i] EXCEPT !.messages = Append(@, msg)]]

setTitle(prev, id, title) ==
  [i \in 1..Len(prev) |-> IF prev[i].id = id THEN [prev[i] EXCEPT !.title = title] ELSE prev[i]]

sessionMatchesCaseSensitive(s, q) ==
  \/ includes(s.title, q)
  \/ \E k \in 1..Len(s.messages) : includes(s.messages[k].content, q)

\* The predicate of sessions.filter in filteredSessions
sessionMatches(s, q) ==
  \/ includes(toLowerCase(s.title), q)
  \/ \E k \in 1..Len(s.messages) : includes(toLowerCase(s.messages[k].content), q)

\* The body of the useMemo of filteredSessions
filterSessions(sess, query) ==
  LET q == toLowerCase(trim(query)) IN
  IF Len(q) = 0 THEN sess ELSE SelectSeq(sess, LAMBDA s : sessionMatches(s, q))

\* The session filter of the history panel
filteredSessions == filterSessions(sessions, search)

----------------------------------------------------------------------------
\* Inputs

Short == <<" ", "A", "b", " ">>
Long43 == [i \in 1..(TitleLen + 1) |-> IF i <= TitleLen THEN "q" ELSE "z"]
\* What the user can have typed into the composer
Questions == {<<" ">>, Short, Long43}
\* What the rename prompt can return (cancel gives null, read as the empty text)
RenameInputs == {<<" ">>, Short}
\* response.answer of a call that resolves; e.message of one that rejects
Answers == {<<"O", "k">>}
ErrorMessages == {<<>>}

StoredSession == [id |-> 1, title |-> DefaultTitle, createdAt |-> 1, messages |-> <<>>]
\* What localStorage can hold under the key when the page loads
InitialStorage == {NoItem, NotJson, JObj(<<>>), JSONstringify(<<StoredSession>>)}

----------------------------------------------------------------------------
\* React state

\* The state the next render commits when no updater is queued
Current ==
  [sessions |-> sessions, activeSessionId |-> activeSessionId, question |-> question,
   isSending |-> isSending, sessionsSet |-> FALSE]

Init ==
  /\ storage \in InitialStorage
  /\ setItemThrows \in BOOLEAN
  /\ setItemThrows => storage = NoItem
  /\ sessions = loadSessions(storage)
  /\ activeSessionId = IF Len(sessions) > 0 THEN sessions[1].id ELSE NULL
  /\ question = <<>>
  /\ isSending = FALSE
  /\ search = <<>>
  /\ next = Current
  /\ inflight = <<>>
  /\ sends = 0
  /\ now = 2
  /\ pc = "mount"
  /\ lastOp = "none"

\* React renders with the state n the queued updaters produced, and then runs
\* useEffect(() => MockStorage.saveSessions(sessions), [sessions]) when the
\* render has a new sessions array.
Commit(n) ==
  /\ sessions' = n.sessions
  /\ activeSessionId' = n.activeSessionId
  /\ question' = n.question
  /\ isSending' = n.isSending
  /\ storage' = IF n.sessionsSet THEN saveSessions(n.sessions) ELSE storage
  /\ next' = [n EXCEPT !.sessionsSet = FALSE]
  /\ pc' = "idle"

\* The effects of the first render: saveSessions(sessions), then the bootstrap
\* of a first session when none is active, and the render it asks for.
Mount ==
  /\ pc = "mount"
  /\ IF activeSession = 0
     THEN LET newS == createNewSession(now) IN
          Commit([next EXCEPT !.sessions = <<newS>> \o @,
                              !.activeSessionId = newS.id,
                              !.sessionsSet = TRUE])
     ELSE Commit([next EXCEPT !.sessionsSet = TRUE])
  /\ lastOp' = "none"
  /\ UNCHANGED <<search, setItemThrows, inflight, sends, now>>

\* Date.now() advances.
Tick ==
  /\ pc = "idle"
  /\ now < MaxClock
  /\ now' = now + 1
  /\ UNCHANGED <<sessions, activeSessionId, question, isSending, search, next, storage,
                 setItemThrows, inflight, sends, pc, lastOp>>

----------------------------------------------------------------------------
\* Handlers, each with the render that follows it

handleNewSession ==
  /\ pc = "idle"
  /\ Len(sessions) < MaxSessions
  /\ LET s == createNewSession(now) IN
     Commit([next EXCEPT !.sessions = <<s>> \o @,
                         !.activeSessionId = s.id,
                         !.sessionsSet = TRUE])
  /\ lastOp' = "none"
  /\ UNCHANGED <<search, setItemThrows, inflight, sends, now>>

handleDeleteSession(id) ==
  /\ Commit([next EXCEPT !.sessions = filterOut(@, id),
                         !.activeSessionId =
                            IF activeSessionId = id THEN firstOtherId(sessions, id) ELSE @,
                         !.sessionsSet = TRUE])
  /\ lastOp' = "none"
  /\ UNCHANGED <<search, setItemThrows, inflight, sends, now>>

\* The Delete button: activeSession && handleDeleteSession(activeSession.id)
ClickDelete ==
  /\ pc = "idle"
  /\ activeSession # 0
  /\ handleDeleteSession(sessions[activeSession].id)

\* A click on an item of the history list
SelectSession ==
  /\ pc = "idle"
  /\ \E i \in 1..Len(filteredSessions) :
       Commit([next EXCEPT !.activeSessionId = filteredSessions[i].id])
  /\ lastOp' = "none"
  /\ UNCHANGED <<search, setItemThrows, inflight, sends, now>>

\* The Rename button, with what the prompt returned
ClickRename ==
  /\ pc = "idle"
  /\ activeSession # 0
  /\ \E title \in RenameInputs :
       IF Len(trim(title)) > 0
       THEN Commit([next EXCEPT !.sessions = setTitle(@, sessions[activeSession].id, trim(title)),
                                !.sessionsSet = TRUE])
       ELSE UNCHANGED <<sessions, activeSessionId, question, isSending, next, storage, pc>>
  /\ lastOp' = "none"
  /\ UNCHANGED <<search, setItemThrows, inflight, sends, now>>

\* The composer's onChange
SetQuestion ==
  /\ pc = "idle"
  /\ \E q \in Questions :
       /\ q # question
       /\ Commit([next EXCEPT !.question = q])
  /\ lastOp' = "none"
  /\ UNCHANGED <<search, setItemThrows, inflight, sends, now>>

\* The search box's onChange
SetSearch(q) ==
  /\ pc = "idle"
  /\ search' = q
  /\ lastOp' = "none"
  /\ UNCHANGED <<sessions, activeSessionId, question, isSending, next, storage, setItemThrows,
                 inflight, sends, now, pc>>

\* if (!question.trim() || !activeSession) return;
sendRejectedNoTrim == Len(question) = 0 \/ activeSession = 0

sendRejected == Len(trim(question)) = 0 \/ activeSession = 0

\* handleSend up to its await.  The call to ApiClient.askQuestion is made in
\* the turn that queues the optimistic append; React renders after that turn.
handleSend(via) ==
  IF sendRejected
  THEN /\ lastOp' = "send-ignored"
       /\ UNCHANGED <<sessions, activeSessionId, question, isSending, search, next, storage,
                      setItemThrows, inflight, sends, now, pc>>
  ELSE /\ sends < MaxSends
       /\ sends' = sends + 1
       /\ LET msg == userMsg(question, now) IN
          /\ next' = [next EXCEPT !.isSending = TRUE,
                                  !.sessions = updateActiveSessionMessages(@, activeSessionId, msg),
                                  !.question = <<>>,
                                  !.sessionsSet = TRUE]
          /\ inflight' = Append(inflight,
                                [sessionId |-> sessions[activeSession].id,
                                 activeSessionId |-> activeSessionId,
                                 messagesLength |-> Len(sessions[activeSession].messages),
                                 userMsg |-> msg])
       /\ pc' = "render"
       /\ lastOp' = via
       /\ UNCHANGED <<sessions, activeSessionId, question, isSending, search, storage,
                      setItemThrows, now>>

\* The Send button is disabled while isSending or while the text is blank.
ClickSend ==
  /\ pc = "idle"
  /\ ~(isSending \/ Len(trim(question)) = 0)
  /\ handleSend("click")

\* Ctrl/Cmd+Enter in the textarea: handleKeyDown calls onSend()
KeySend ==
  /\ pc = "idle"
  /\ handleSend("key")

\* The render after the first part of handleSend
Render ==
  /\ pc = "render"
  /\ Commit(next)
  /\ lastOp' = "none"
  /\ UNCHANGED <<search, setItemThrows, inflight, sends, now>>

RemoveAt(seq, i) == SubSeq(seq, 1, i - 1) \o SubSeq(seq, i + 1, Len(seq))

\* The part of handleSend after the await, when the call resolved
SendResolved ==
  /\ pc = "idle"
  /\ \E i \in 1..Len(inflight), answer \in Answers :
       LET f == inflight[i]
           appended == updateActiveSessionMessages(next.sessions, f.activeSessionId,
                                                   assistantMsg(answer, now))
           titled == IF f.messagesLength = 0
                     THEN setTitle(appended, f.sessionId, truncateTitle(f.userMsg.content))
                     ELSE appended
       IN /\ Commit([next EXCEPT !.sessions = titled, !.isSending = FALSE,
                                 !.sessionsSet = TRUE])
          /\ inflight' = RemoveAt(inflight, i)
  /\ lastOp' = "resolved"
  /\ UNCHANGED <<search, setItemThrows, sends, now>>

\* The part of handleSend after the await, when the call rejected
SendFailed ==
  /\ pc = "idle"
  /\ \E i \in 1..Len(inflight), message \in ErrorMessages :
       LET f == inflight[i] IN
       /\ Commit([next EXCEPT !.sessions = updateActiveSessionMessages(
                                              @, f.activeSessionId, errMsg(message, now)),
                              !.isSending = FALSE,
                              !.sessionsSet = TRUE])
       /\ inflight' = RemoveAt(inflight, i)
  /\ lastOp' = "failed"
  /\ UNCHANGED <<search, setItemThrows, sends, now>>

Next ==
  \/ Mount
  \/ Tick
  \/ handleNewSession
  \/ ClickDelete
  \/ SelectSession
  \/ ClickRename
  \/ SetQuestion
  \/ ClickSend
  \/ KeySend
  \/ Render
  \/ SendResolved
  \/ SendFailed

Spec == Init /\ [][Next]_vars

----------------------------------------------------------------------------
\* The session filter on its own: any collection, any search text

FilterTitles == {DefaultTitle, <<"A", "b">>, <<"a", "B", "c">>}
FilterContents == {<<"b", "C">>, <<"O", "k">>}
FilterQueries ==
  {<<>>, <<" ">>, <<"a", "b">>, <<"A", "B">>, <<" ", "B", "c", " ">>, <<"b", "c">>,
   <<"S", "E">>, <<"o", "k">>, <<"z">>, <<"e", "w", " ", "s">>}

\* The sessions a collection can hold under the id i
FilterSessions(i) ==
  {[id |-> i, title |-> ti, createdAt |-> i,
    messages |-> IF c = <<>> THEN <<>> ELSE <<userMsg(c, i)>>] :
     ti \in FilterTitles, c \in FilterContents \cup {<<>>}}

InitFilter ==
  /\ \E a \in FilterSessions(2), b \in FilterSessions(1) : sessions = <<a, b>>
  /\ activeSessionId = sessions[1].id
  /\ question = <<>>
  /\ isSending = FALSE
  /\ search = <<>>
  /\ next = Current
  /\ storage = JSONstringify(sessions)
  /\ setItemThrows = FALSE
  /\ inflight = <<>>
  /\ sends = 0
  /\ now = 2
  /\ pc = "idle"
  /\ lastOp = "none"

NextFilter == \E q \in FilterQueries : SetSearch(q)

SpecFilter == InitFilter /\ [][NextFilter]_vars

----------------------------------------------------------------------------
\* Properties

HasMessage(sess, id, msg) ==
  \E i \in 1..Len(sess) :
    sess[i].id = id /\ \E k \in 1..Len(sess[i].messages) : sess[i].messages[k] = msg

\* The step in which the k-th outstanding call settles
Settles(k) == pc = "idle" /\ pc' = "idle" /\ k \in 1..Len(inflight) /\ inflight' = RemoveAt(inflight, k)

RECURSIVE CountReplies(_)
CountReplies(sess) ==
  IF Len(sess) = 0 THEN 0
  ELSE Cardinality({k \in 1..Len(sess[1].messages) : sess[1].messages[k].role = "assistant"})
       + CountReplies(Tail(sess))

\* The title the first question gives a session
ExpectedTitle(content) ==
  IF Len(content) <= 42 THEN content ELSE SubSeq(content, 1, 42) \o <<Ellipsis>>

\* C1: at most one Query Service call is in flight in every reachable state.
C1_AtMostOneCallInFlight == Len(inflight) <= 1

\* C2: the active pointer is null or the id of a session of the collection,
\* and it is null only when the collection is empty.
C2_ActivePointerValid ==
  /\ activeSessionId = NULL \/ \E i \in 1..Len(sessions) : sessions[i].id = activeSessionId
  /\ activeSessionId = NULL => Len(sessions) = 0

\* C2 witness: the only session was deleted while it was active.
C2_Witness == pc = "idle" /\ Len(sessions) = 0 /\ activeSessionId = NULL

\* C3: the ids of the sessions of the collection are pairwise different.
C3_SessionIdsUnique ==
  \A i, j \in 1..Len(sessions) : i # j => sessions[i].id # sessions[j].id

C5_VisibleAndStoredBeforeCall ==
  pc = "render" =>
    /\ HasMessage(sessions, inflight[Len(inflight)].sessionId, inflight[Len(inflight)].userMsg)
    /\ HasMessage(loadSessions(storage), inflight[Len(inflight)].sessionId,
                  inflight[Len(inflight)].userMsg)

\* C5 as amended: when handleSend makes its call the append of the user
\* message is queued and not yet rendered; the render that follows, which
\* comes before the call can settle, makes it part of the collection and,
\* unless the write fails, of the store; and assistant messages (answers and
\* errors) are appended only by the step in which a call settles.
C5_QueuedThenVisibleBeforeSettle ==
  [][/\ pc' = "render" =>
          /\ Len(inflight') = Len(inflight) + 1
          /\ HasMessage(next'.sessions, inflight'[Len(inflight')].sessionId,
                        inflight'[Len(inflight')].userMsg)
     /\ pc = "render" =>
          /\ inflight' = inflight
          /\ HasMessage(sessions', inflight[Len(inflight)].sessionId,
                        inflight[Len(inflight)].userMsg)
          /\ ~setItemThrows =>
               HasMessage(loadSessions(storage'), inflight[Len(inflight)].sessionId,
                          inflight[Len(inflight)].userMsg)
     /\ CountReplies(sessions') > CountReplies(sessions) =>
          pc = "idle" /\ \E k \in 1..Len(inflight) : Settles(k)]_vars

\* C5 witness: the call is made and the user message is queued, and neither
\* rendered nor stored.
C5_Witness ==
  /\ pc = "render"
  /\ HasMessage(next.sessions, inflight[Len(inflight)].sessionId, inflight[Len(inflight)].userMsg)
  /\ ~HasMessage(sessions, inflight[Len(inflight)].sessionId, inflight[Len(inflight)].userMsg)
  /\ ~setItemThrows

\* C6: a handleSend with a blank question or without an active session
\* changes neither the collection, the pointer, the input, the sending flag,
\* the store nor the outstanding calls.
C6_BlankSendChangesNothing ==
  [][((KeySend \/ ClickSend) /\ (Len(trim(question)) = 0 \/ activeSession = 0)) =>
       UNCHANGED <<sessions, activeSessionId, question, isSending, next, storage, inflight,
                   sends>>]_vars

\* C6 witness: handleSend has returned at once on a question of white space.
C6_Witness ==
  /\ lastOp = "send-ignored"
  /\ Len(question) > 0
  /\ Len(trim(question)) = 0
  /\ activeSession # 0

\* C7 as claimed: when the send that gave a session its first message has
\* finished, resolved or rejected, the title is the message's content, cut to
\* 42 characters and an ellipsis when longer.
C7_TitleSetWhenSendFinished ==
  [][\A k \in 1..Len(inflight) :
       (Settles(k) /\ inflight[k].messagesLength = 0) =>
          \A i \in 1..Len(sessions') :
            sessions'[i].id = inflight[k].sessionId =>
              sessions'[i].title = ExpectedTitle(inflight[k].userMsg.content)]_vars

\* C7 as amended: when the call of that send resolves, the title is the
\* message's content, cut to 42 characters and an ellipsis when longer,
\* whatever the title was; when the call rejects, no title changes.
C7_TitleSetWhenSendResolved ==
  [][\A k \in 1..Len(inflight) :
       /\ (lastOp' = "resolved" /\ Settles(k) /\ inflight[k].messagesLength = 0) =>
            \A i \in 1..Len(sessions') :
              sessions'[i].id = inflight[k].sessionId =>
                sessions'[i].title = ExpectedTitle(inflight[k].userMsg.content)
       /\ (lastOp' = "failed" /\ Settles(k)) =>
            /\ Len(sessions') = Len(sessions)
            /\ \A i \in 1..Len(sessions) : sessions'[i].title = sessions[i].title]_vars

\* C7 witness: a renamed or default title was replaced by the first 42
\* characters of a longer first question and the ellipsis.
C7_Witness ==
  /\ lastOp = "resolved"
  /\ \E i \in 1..Len(sessions) :
       /\ Len(sessions[i].messages) >= 2
       /\ sessions[i].messages[1].content = Long43
       /\ Len(sessions[i].title) = TitleLen + 1
       /\ sessions[i].title[TitleLen + 1] = Ellipsis
       /\ sessions[i].title[TitleLen] = "q"

\* C8: when nothing is pending and setItem does not throw, the stored item is
\* the text of the whole collection, and loading it gives the collection back.
C8_StoreMirrorsCollection ==
  (pc = "idle" /\ ~setItemThrows) =>
     /\ storage = JSONstringify(sessions)
     /\ loadSessions(storage) = sessions

\* C8 witness: a collection of two sessions, one of them with an error
\* message, is mirrored.
C8_Witness ==
  /\ pc = "idle"
  /\ ~setItemThrows
  /\ Len(sessions) = 2
  /\ \E i \in 1..2 : \E k \in 1..Len(sessions[i].messages) : sessions[i].messages[k].error
  /\ loadSessions(storage) = sessions

\* The sessions the query q selects, by the definition of a substring
IsSubstring(needle, hay) ==
  \E a \in 0..Len(hay) : \E b \in a..Len(hay) : SubSeq(hay, a + 1, b) = needle

Selected(s, q) ==
  \/ IsSubstring(toLowerCase(q), toLowerCase(s.title))
  \/ \E k \in 1..Len(s.messages) : IsSubstring(toLowerCase(q), toLowerCase(s.messages[k].content))

\* C9 as claimed: a blank query shows the collection as it is; any other
\* query shows, in order, exactly the sessions whose lower-cased title or some
\* lower-cased message content holds the lower-cased query.
C9_FilterMatchesQueryAsTyped ==
  /\ Len(trim(search)) = 0 => filteredSessions = sessions
  /\ Len(trim(search)) > 0 =>
       filteredSessions = SelectSeq(sessions, LAMBDA s : Selected(s, search))

\* C9 as amended: a blank query shows the collection as it is; any other
\* query shows, in order, exactly the sessions whose lower-cased title or some
\* lower-cased message content holds the trimmed, lower-cased query; queries
\* that differ in letter case only show the same sessions.
C9_FilterMatchesTrimmedQuery ==
  /\ Len(trim(search)) = 0 => filteredSessions = sessions
  /\ Len(trim(search)) > 0 =>
       filteredSessions = SelectSeq(sessions, LAMBDA s : Selected(s, trim(search)))
  /\ \A q \in FilterQueries :
       toLowerCase(q) = toLowerCase(search) =>
         filterSessions(sessions, q) = filteredSessions

\* C9 witness: a query with white space around it and in another case than
\* the text it matches selects one session of two.
C9_Witness ==
  /\ search = <<" ", "B", "c", " ">>
  /\ Len(filteredSessions) = 1
  /\ Len(sessions) = 2

\* C10: the message a settling call appends goes only to sessions that hold
\* the user message of its send, and no session is added or removed.
C10_ReplyOnlyToOriginatingSession ==
  [][\A k \in 1..Len(inflight) :
       Settles(k) =>
          /\ Len(sessions') = Len(sessions)
          /\ \A i \in 1..Len(sessions) :
               sessions'[i].messages # sessions[i].messages =>
                 /\ \E j \in 1..Len(sessions[i].messages) :
                      sessions[i].messages[j] = inflight[k].userMsg
                 /\ sessions[i].id = inflight[k].sessionId]_vars

====
